---------------------------- MODULE Spec2Model ----------------------------
(***************************************************************************)
(* HomeMonitorV2: the ThingSpeak channel client (ThingSpeak.cpp) and the   *)
(* refresh scheduling of the UI loop (main.cpp).                           *)
(*                                                                         *)
(* Modelling conventions                                                   *)
(*  - float values are modelled by integers (70.0f is 70);                 *)
(*  - a JSON null (also the value operator[] inserts for a missing key) is *)
(*    the string NullJson;                                                 *)
(*  - an uncaught C++ exception ends the program (std::terminate): main    *)
(*    has no try block, so outcome "terminated" is final;                  *)
(*  - an out-of-bounds array write is undefined behaviour: the action      *)
(*    draws its outcome from UBOutcomes.                                   *)
(***************************************************************************)
EXTENDS Integers, Sequences, FiniteSets, TLC

VARIABLES
    temperatureData,   \* homeMonitors[0].thingSpeak.temperatureData
    humidityData,      \* homeMonitors[0].thingSpeak.humidityData
    call,              \* the last GetFieldData call: its inputs and how it ended
    memoryCorrupted,   \* a write landed outside the two series objects
    daylightSavings,   \* whether the current zone is on daylight saving time
    pc,                \* position of main's rendering loop
    now,               \* std::chrono::steady_clock::now(), in minutes
    pollingDelay,      \* main's local: the periodic deadline
    g_SwapChainOccluded,
    trigger,           \* the refresh the last step made: "none", "manual", "timer"
    httpGets,          \* the number of cpr::Get requests the last step issued
    lastTimerReturn,   \* clock reading when the last timer-triggered call returned
    inFlight,          \* GetFieldData calls entered and not yet left
    homeMonitors,      \* main's vector, without the series: index -> monitor
    restSeries,        \* the series of homeMonitors[1], homeMonitors[2], ...
    darkMode,
    inputBuffers,      \* the static buffers of the "Add ThingSpeak Object" window
    plot,              \* what the plot windows of the last frame computed
    colorOptions,      \* HomeMonitorSetColor's static vector: index -> available
    colorSelected,     \* what HomeMonitorSetColor returned, call by call
    g_frameContext,    \* index -> FenceValue
    g_frameIndex,
    g_fenceLastSignaledValue,
    g_fence,           \* g_fence->GetCompletedValue()
    commandQueue,      \* what g_pd3dCommandQueue holds that the GPU has not done
    frameCtx           \* the render loop's local, and the fence value it waits for

vars == <<temperatureData, humidityData, call, memoryCorrupted, daylightSavings,
          pc, now, pollingDelay, g_SwapChainOccluded, trigger,
          httpGets, lastTimerReturn, inFlight,
          homeMonitors, restSeries, darkMode, inputBuffers, plot,
          colorOptions, colorSelected,
          g_frameContext, g_frameIndex, g_fenceLastSignaledValue, g_fence,
          commandQueue, frameCtx>>

uiVars == <<homeMonitors, restSeries, darkMode, inputBuffers, plot>>

\* static const int APP_NUM_FRAMES_IN_FLIGHT = 3;
APP_NUM_FRAMES_IN_FLIGHT == 3

\* lastTimerReturn before any timer-triggered call has returned
NoReturn == -1

\* frameCtx outside the rendering of a frame
NoFrameCtx == [index |-> 0 - 1, fenceValue |-> 0]

setupVars == <<colorOptions, colorSelected>>

d3dVars == <<g_frameContext, g_frameIndex, g_fenceLastSignaledValue, g_fence,
             commandQueue, frameCtx>>

loopVars == <<pc, now, pollingDelay, g_SwapChainOccluded, trigger,
              lastTimerReturn, inFlight>>

series == <<temperatureData, humidityData>>

-----------------------------------------------------------------------------
(* Bounds of the model *)

\* Entries of the settings file: more than there are colours.
MaxSettings == 7

\* Frames the render loop is followed for.
MaxFrames == 7

\* Capacity of the point arrays. The source has 100 (ThingSpeak.h:14); the
\* model scales it down so that responses longer than the capacity are
\* enumerable.
MAX_THINGSPEAK_REQUEST_SIZE == 2

\* A response's "feeds" array holds at most MaxFeeds entries (the server is
\* asked for MAX_THINGSPEAK_REQUEST_SIZE results, and may answer with more).
MaxFeeds == 3

\* The settings file names 1 .. MaxMonitors channels.
MaxMonitors == 2

\* The steady clock is followed up to the reading MaxTime (minutes).
MaxTime == 12

\* A frame begins 1..MaxFrameMinutes after the frame before it.
MaxFrameMinutes == 2

\* A blocking GetFieldData call lasts 0..MaxCallMinutes minutes.
MaxCallMinutes == 1

-----------------------------------------------------------------------------
(* Program constants *)

OK == 200
NotFound == 404
InternalServerError == 500

\* std::chrono::minutes(5)
PollingInterval == 5

\* <cfloat>: the largest float, and the smallest positive normal float.  The
\* y-limits are counted in halves, so that FLT_MIN lies above 0 and below
\* every positive value of the data.
FLT_MAX == 1000000
FLT_MIN == 1

Capacity == MAX_THINGSPEAK_REQUEST_SIZE
Slots == 0 .. (Capacity - 1)

NullJson == "<null>"

-----------------------------------------------------------------------------
(* Timestamps.  A UTC timestamp "YYYY-MM-DDTHH:MM:SSZ" is the record of    *)
(* the fields std::chrono::parse reads; the PST timestamp is the string    *)
(* std::put_time writes.                                                   *)

UtcDateTime(Y, M, D, h, mi, s) ==
    [year |-> Y, month |-> M, day |-> D, hour |-> h, minute |-> mi, second |-> s]

\* days since 1970-01-01 of a civil date (what sys_time holds after parse)
DaysFromCivil(Y, M, D) ==
    LET y   == IF M <= 2 THEN Y - 1 ELSE Y
        era == y \div 400
        yoe == y - era * 400
        mp  == IF M > 2 THEN M - 3 ELSE M + 9
        doy == (153 * mp + 2) \div 5 + D - 1
        doe == yoe * 365 + yoe \div 4 - yoe \div 100 + doy
    IN  era * 146097 + doe - 719468

\* the civil date of a day number (what std::gmtime computes)
CivilFromDays(z0) ==
    LET z   == z0 + 719468
        era == z \div 146097
        doe == z - era * 146097
        yoe == (doe - doe \div 1460 + doe \div 36524 - doe \div 146096) \div 365
        doy == doe - (365 * yoe + yoe \div 4 - yoe \div 100)
        mp  == (5 * doy + 2) \div 153
        d   == doy - (153 * mp + 2) \div 5 + 1
        m   == IF mp < 10 THEN mp + 3 ELSE mp - 9
        y   == yoe + era * 400 + (IF m <= 2 THEN 1 ELSE 0)
    IN  [year |-> y, month |-> m, day |-> d]

Pad2(n) == IF n < 10 THEN "0" \o ToString(n) ELSE ToString(n)

\* std::put_time(tm, "%Y-%m-%d %H:%M:%S"), years 1000..9999
PutTime(tm) ==
    ToString(tm.year) \o "-" \o Pad2(tm.month) \o "-" \o Pad2(tm.day) \o " "
        \o Pad2(tm.hour) \o ":" \o Pad2(tm.minute) \o ":" \o Pad2(tm.second)

\* The offset with the sign turned.
GetPstTimeOffset_Ahead(dst) ==
    IF dst THEN 8 + 1 ELSE 8

\* The offset without the daylight-saving hour.
GetPstTimeOffset_Standard(dst) == -8

\* Offset, in hours, added to a UTC time; dst is whether the current zone
\* reports daylight saving at the moment of the call.
GetPstTimeOffset(dst) ==
    IF dst THEN -8 + 1 ELSE -8

ConvertUtcDateTimeToPstDateTime(utc, dst) ==
    LET utcTimePoint == DaysFromCivil(utc.year, utc.month, utc.day) * 86400
                            + utc.hour * 3600 + utc.minute * 60 + utc.second
        pstTime == utcTimePoint + GetPstTimeOffset(dst) * 3600
        days    == pstTime \div 86400
        rem     == pstTime % 86400
        date    == CivilFromDays(days)
    IN  PutTime([year |-> date.year, month |-> date.month, day |-> date.day,
                 hour |-> rem \div 3600, minute |-> (rem % 3600) \div 60,
                 second |-> rem % 60])

-----------------------------------------------------------------------------
(* HTTP responses of the ThingSpeak endpoint *)

\* std::stof on the field strings of the model: the float, or the exception.
\* "7x" has a numeric prefix, which stof converts; "abc" has none.
stof(str) ==
    CASE str = "70"  -> [threw |-> FALSE, value |-> 70]
      [] str = "40"  -> [threw |-> FALSE, value |-> 40]
      [] str = "7x"  -> [threw |-> FALSE, value |-> 7]
      [] str = "-5"  -> [threw |-> FALSE, value |-> 0 - 5]
      [] str = "-9"  -> [threw |-> FALSE, value |-> 0 - 9]
      [] OTHER       -> [threw |-> TRUE,  value |-> 0]

Entry(id, hour, f1, f2) ==
    [entry_id |-> id, created_at |-> UtcDateTime(2024, 12, 24, hour, 10, 39),
     field1 |-> f1, field2 |-> f2]

\* The entries of "feeds": three that the loop stores or skips, and two on
\* which std::stof throws.  A missing field reads as null.
GoodEntries ==
    { Entry(101, 7, "70", "40"), Entry(102, 8, NullJson, "40"),
      Entry(103, 9, "7x", NullJson) }
BadEntries ==
    { Entry(104, 10, "abc", "40"), Entry(105, 11, "7x", "abc") }

\* Entries with values above and below zero.
UIEntries == { Entry(101, 7, "70", "40"), Entry(106, 12, "-5", "-9") }

RECURSIVE SeqsUpTo(_, _)
SeqsUpTo(S, n) ==
    IF n = 0 THEN { <<>> }
    ELSE LET shorter == SeqsUpTo(S, n - 1)
         IN  shorter \cup { Append(q, x) : q \in { r \in shorter : Len(r) = n - 1 }, x \in S }

\* The "feeds" arrays of the responses: any sequence of entries without a
\* throwing value, and such a sequence with one throwing entry in it,
\* followed by complete entries (no entry after the first throwing one is
\* read by GetFieldData).
FeedSeqs ==
    LET good == SeqsUpTo(GoodEntries, MaxFeeds)
        full == SeqsUpTo({ Entry(101, 7, "70", "40") }, MaxFeeds)
    IN  { q \in good \cup { g \o <<b>> \o f : g \in good, b \in BadEntries, f \in full } :
            Len(q) <= MaxFeeds }

\* The "channel" object: absent, or the names of field1 and field2.
NoChannel == [present |-> FALSE, field1 |-> NullJson, field2 |-> NullJson]

Channel(field1, field2) == [present |-> TRUE, field1 |-> field1, field2 |-> field2]

NamedChannels == { Channel("Temperature", "Humidity"), Channel("Temp (F)", "RH") }

\* parse: what json::parse makes of the body: "invalid" (it throws),
\* "scalar" (a JSON value that is no object) or "object".  Every "feeds"
\* array comes with the first channel; the second channel and the bodies
\* without "channel" carry at most one entry; bodies without "feeds" carry
\* none.
ObjectBodies ==
    { [parse |-> "object", hasFeeds |-> TRUE, feeds |-> f,
       channel |-> Channel("Temperature", "Humidity")] : f \in FeedSeqs }
    \cup
    { [parse |-> "object", hasFeeds |-> TRUE, feeds |-> f, channel |-> c] :
        f \in { q \in FeedSeqs : Len(q) <= 1 }, c \in NamedChannels \cup { NoChannel } }
    \cup
    { [parse |-> "object", hasFeeds |-> FALSE, feeds |-> <<>>, channel |-> c] :
        c \in NamedChannels \cup { NoChannel } }

OtherBody(kind) ==
    [parse |-> kind, hasFeeds |-> FALSE, feeds |-> <<>>, channel |-> NoChannel]

Responses ==
    { [status |-> OK, body |-> b] :
        b \in ObjectBodies \cup { OtherBody("invalid"), OtherBody("scalar") } }
    \cup
    { [status |-> st, body |-> OtherBody("invalid")] :
        st \in { NotFound, InternalServerError } }

\* Timestamps on and around the turns of the day, the month and the year,
\* in leap years and others.
BoundaryStamps ==
    << UtcDateTime(2024, 12, 24,  7, 10, 39),   \* the day before
       UtcDateTime(2024, 12, 24,  8,  0,  0),   \* midnight of the same day
       UtcDateTime(2024, 12, 24, 20, 30,  5),   \* the same day
       UtcDateTime(2024,  7,  1,  6,  5,  9),   \* the month before
       UtcDateTime(2024,  3,  1,  3, 15,  0),   \* February 29th
       UtcDateTime(2025,  1,  1,  0,  0,  0),   \* the year before
       UtcDateTime(2023,  3,  1,  7, 59, 59),   \* February 28th
       UtcDateTime(2000,  3,  1,  7,  0,  1) >> \* February 29th of a century year

\* An entry with both fields, created at utc.
StampedEntry(utc) ==
    [entry_id |-> 110, created_at |-> utc, field1 |-> "70", field2 |-> "40"]

\* Status 200 with 1 .. capacity such entries, of timestamps that follow
\* one another in BoundaryStamps.
StampedResponses ==
    { [status |-> OK,
       body |-> [parse |-> "object", hasFeeds |-> TRUE,
                 feeds |-> [k \in 1 .. n |-> StampedEntry(BoundaryStamps[first + k - 1])],
                 channel |-> Channel("Temperature", "Humidity")]] :
        <<first, n>> \in { w \in (DOMAIN BoundaryStamps) \X (1 .. Capacity) :
                                w[1] + w[2] - 1 \in DOMAIN BoundaryStamps } }

\* ConvertUtcDateTimeToPstDateTime tabulated over the timestamps of the
\* responses (computed once).
PstDateTimeOf ==
    [utc \in { e.created_at : e \in GoodEntries \cup BadEntries \cup UIEntries }
                \cup { BoundaryStamps[k] : k \in DOMAIN BoundaryStamps },
     dst \in BOOLEAN |-> ConvertUtcDateTimeToPstDateTime(utc, dst)]

-----------------------------------------------------------------------------
(* ThingSpeak::GetChannelData *)

\* `json thingSpeakData = NULL;` holds the number 0, and stays so unless the
\* status is 200.
JsonNULL ==
    [isNULL |-> TRUE, hasFeeds |-> FALSE, feeds |-> <<>>, channel |-> NoChannel]

\* cpr::Get repeated once when the status is not 200.
cprGet_RetryOnFailure(resp) ==
    [result |-> resp, requests |-> IF resp.status = OK THEN 1 ELSE 2]

\* `cpr::Response result = cpr::Get(cpr::Url{thingSpeakUrl});`: one request,
\* answered by resp.
cprGet(resp) == [result |-> resp, requests |-> 1]

\* The value returned, or the exception that leaves the function, and the
\* number of requests made.
GetChannelData(response, dst) ==
    LET got  == cprGet(response)
        resp == got.result
    IN
    IF resp.status = OK
    THEN CASE resp.body.parse = "invalid" ->
                \* json::parse throws
                [threw |-> TRUE, cause |-> "parse_error", json |-> JsonNULL,
                 requests |-> got.requests]
           [] resp.body.parse = "scalar" ->
                \* thingSpeakData["feeds"] on a value that is no object throws
                [threw |-> TRUE, cause |-> "type_error", json |-> JsonNULL,
                 requests |-> got.requests]
           [] OTHER ->
                \* a missing "feeds" is inserted as null: the loop has no turn
                [threw |-> FALSE, cause |-> "none", requests |-> got.requests,
                 json  |-> [isNULL   |-> FALSE,
                            hasFeeds |-> resp.body.hasFeeds,
                            feeds    |-> [k \in DOMAIN resp.body.feeds |->
                                [resp.body.feeds[k] EXCEPT !.created_at =
                                    PstDateTimeOf[@, dst]]],
                            channel  |-> resp.body.channel]]
    ELSE [threw |-> FALSE, cause |-> "none", json |-> JsonNULL, requests |-> got.requests]

-----------------------------------------------------------------------------
(* ThingSpeak::GetFieldData *)

\* An out-of-bounds write either traps (the program ends) or lands on what
\* follows the array in the object's layout.
UBOutcomes == { "trap", "overwrite" }

\* The bits of int n read as a float: 0 for 0, otherwise a denormal, which is
\* no value the code stores; the model writes it as -n.
IntBitsAsFloat(n) == IF n = 0 THEN 0 ELSE 0 - n

\* The writes of one point at index i < capacity, lines 66-71 / 84-89; y is
\* stof's result: when it throws, yAxisData and numDataPoints are not reached.
StorePoint(d, i, id, ts, y) ==
    LET d3 == [d EXCEPT !.entryId[i] = id, !.timestamp[i] = ts, !.xAxisData[i] = i]
    IN  IF y.threw
        THEN [data |-> d3, threw |-> TRUE, spill |-> FALSE, wild |-> FALSE]
        ELSE [data |-> [d3 EXCEPT !.yAxisData[i] = y.value, !.numDataPoints = i + 1],
              threw |-> FALSE, spill |-> FALSE, wild |-> FALSE]

\* The same writes at index i >= capacity, landing where the layout of
\* ThingSpeakFeedData_t puts them (int and float are 4 bytes, the arrays are
\* contiguous): entryId[i] is xAxisData[i - capacity], xAxisData[i] is
\* yAxisData[i - capacity], yAxisData[capacity] is padding and later ones lie
\* in the timestamp strings, timestamp[capacity] is the first member of the
\* object that follows (spill); anything further is a wild write.
OverrunPoint(d, i, id, ts, y) ==
    LET j  == i - Capacity
        d1 == IF j \in Slots THEN [d EXCEPT !.xAxisData[j] = IntBitsAsFloat(id)] ELSE d
        d3 == IF j \in Slots THEN [d1 EXCEPT !.yAxisData[j] = i] ELSE d1
    IN  [data  |-> IF y.threw THEN d3 ELSE [d3 EXCEPT !.numDataPoints = i + 1],
         threw |-> y.threw,
         spill |-> j = 0,
         wild  |-> (j > 0) \/ (j \notin Slots)]

WritePoint(d, i, id, ts, y) ==
    IF i \in Slots THEN StorePoint(d, i, id, ts, y) ELSE OverrunPoint(d, i, id, ts, y)

\* The humidity of an entry without temperature stored all the same.
SkippedEntry_StoresHumidity(st, feed, channel, ub) ==
    IF feed.field2 = NullJson \/ stof(feed.field2).threw THEN st
    ELSE [st EXCEPT !.h = WritePoint(st.h, st.h.numDataPoints, feed.entry_id,
                                     feed.created_at, stof(feed.field2)).data]

\* Lines 56-62: `continue` on an entry whose temperature is null: the
\* humidity of this entry is not looked at.
SkippedEntry(st, feed, channel, ub) == st

\* One turn of the loop over "feeds" (lines 53-90).  st is the state of the
\* call: the two series, how the call stands, and whether memory outside the
\* series was overwritten.
FeedStep(st, feed, channel, ub) ==
    IF feed.field1 = NullJson
    THEN SkippedEntry(st, feed, channel, ub)
    ELSE
    IF channel.field1 = NullJson
    THEN [st EXCEPT !.outcome = "terminated", !.cause = "type_error"]
    ELSE
    LET t0 == [st.t EXCEPT !.fieldName = channel.field1]
        i  == t0.numDataPoints
    IN
    IF i \notin Slots /\ ub = "trap"
    THEN [st EXCEPT !.t = t0, !.outcome = "terminated", !.cause = "trap", !.oob = TRUE]
    ELSE
    LET w  == WritePoint(t0, i, feed.entry_id, feed.created_at, stof(feed.field1))
        \* temperatureData.timestamp[capacity] is humidityData.fieldName
        h0 == IF w.spill THEN [st.h EXCEPT !.fieldName = feed.created_at] ELSE st.h
        s1 == [st EXCEPT !.t = w.data, !.h = h0,
                         !.oob = @ \/ (i \notin Slots),
                         !.corrupted = @ \/ w.wild]
    IN
    IF w.threw
    THEN [s1 EXCEPT !.outcome = "terminated", !.cause = "invalid_argument"]
    ELSE
    IF feed.field2 = NullJson
    THEN s1      \* continue
    ELSE
    IF channel.field2 = NullJson
    THEN [s1 EXCEPT !.outcome = "terminated", !.cause = "type_error"]
    ELSE
    LET h1 == [s1.h EXCEPT !.fieldName = channel.field2]
        k  == h1.numDataPoints
    IN
    IF k \notin Slots /\ ub = "trap"
    THEN [s1 EXCEPT !.h = h1, !.outcome = "terminated", !.cause = "trap", !.oob = TRUE]
    ELSE
    LET v  == WritePoint(h1, k, feed.entry_id, feed.created_at, stof(feed.field2))
        \* humidityData.timestamp[capacity] lies after the ThingSpeak object
        s2 == [s1 EXCEPT !.h = v.data,
                         !.oob = @ \/ (k \notin Slots),
                         !.corrupted = @ \/ v.wild \/ v.spill]
    IN
    IF v.threw
    THEN [s2 EXCEPT !.outcome = "terminated", !.cause = "invalid_argument"]
    ELSE s2

RECURSIVE FeedLoop(_, _, _, _, _)
FeedLoop(st, feeds, k, channel, ub) ==
    IF k > Len(feeds) \/ st.outcome = "terminated"
    THEN st
    ELSE FeedLoop(FeedStep(st, feeds[k], channel, ub), feeds, k + 1, channel, ub)

\* GetFieldData with the two counters reset before the data is fetched.
GetFieldData_ResetBeforeFetch(t, h, resp, dst, ub) ==
    LET got == GetChannelData(resp, dst)
        st0 == [t |-> [t EXCEPT !.numDataPoints = 0], h |-> [h EXCEPT !.numDataPoints = 0],
                outcome |-> "returned", ret |-> 0, requests |-> got.requests,
                cause |-> "none", oob |-> FALSE, corrupted |-> FALSE]
    IN  IF got.threw
        THEN [st0 EXCEPT !.outcome = "terminated", !.cause = got.cause]
        ELSE IF got.json.isNULL
        THEN [st0 EXCEPT !.ret = -1]
        ELSE FeedLoop(st0, got.json.feeds, 1, got.json.channel, ub)

\* int ThingSpeak::GetFieldData(): the series t, h after the call, how it
\* ended (outcome "returned" with the value ret, or "terminated" by the
\* exception or trap named by cause).
GetFieldData(t, h, resp, dst, ub) ==
    LET got == GetChannelData(resp, dst)
        st0 == [t |-> t, h |-> h, outcome |-> "returned", ret |-> 0,
                requests |-> got.requests,
                cause |-> "none", oob |-> FALSE, corrupted |-> FALSE]
    IN  IF got.threw
        THEN [st0 EXCEPT !.outcome = "terminated", !.cause = got.cause]
        ELSE IF got.json.isNULL
        THEN [st0 EXCEPT !.ret = -1]
        ELSE FeedLoop([st0 EXCEPT !.t.numDataPoints = 0, !.h.numDataPoints = 0],
                      got.json.feeds, 1, got.json.channel, ub)

-----------------------------------------------------------------------------
(* State of the ThingSpeak object after construction *)

\* ThingSpeak's constructors leave temperatureData and humidityData
\* default-initialized: the std::string members are empty, the int and float
\* members hold indeterminate values.  The model draws numDataPoints from
\* UninitInts (a negative value, one within the capacity and one above it)
\* and fills the arrays of the object with the same value.
UninitInts == { -1, 1, Capacity + 1 }

UninitSeries(g) ==
    [fieldName     |-> "",
     numDataPoints |-> g,
     entryId       |-> [k \in Slots |-> g],
     xAxisData     |-> [k \in Slots |-> g],
     yAxisData     |-> [k \in Slots |-> g],
     timestamp     |-> [k \in Slots |-> ""]]

\* Whether some entry of the response holds a field value std::stof rejects.
HasNonNumeric(resp) ==
    \E k \in DOMAIN resp.body.feeds :
        \E v \in { resp.body.feeds[k].field1, resp.body.feeds[k].field2 } :
            v # NullJson /\ stof(v).threw

\* The record of a call: how it ended (outcome, ret, cause, oob: an array
\* was written out of bounds), and what the response was: its status, what
\* json::parse made of the body, whether "feeds" and "channel" were there,
\* whether a field value was not numeric.  The response itself is kept for
\* a call that returned.  dst is whether daylight saving was in effect
\* during the call.
NoResponse == [status |-> OK, body |-> OtherBody("invalid")]

NoCall ==
    [outcome |-> "none", ret |-> 0, cause |-> "none", oob |-> FALSE, dst |-> FALSE,
     status |-> OK, parse |-> "invalid", hasFeeds |-> FALSE, hasChannel |-> FALSE,
     nonNumeric |-> FALSE, response |-> NoResponse]

CallRecord(r, resp) ==
    [outcome |-> r.outcome, ret |-> r.ret, cause |-> r.cause, oob |-> r.oob,
     dst |-> daylightSavings,
     status |-> resp.status, parse |-> resp.body.parse,
     hasFeeds |-> resp.body.hasFeeds, hasChannel |-> resp.body.channel.present,
     nonNumeric |-> HasNonNumeric(resp),
     response |-> IF r.outcome = "returned" THEN resp ELSE NoResponse]

InitClient ==
    /\ \E g \in UninitInts :
        /\ temperatureData = UninitSeries(g)
        /\ humidityData = UninitSeries(g)
    /\ call = NoCall
    /\ memoryCorrupted = FALSE
    /\ daylightSavings = FALSE
    /\ httpGets = 0

\* The outcome of undefined behaviour is drawn only when the response can
\* overrun an array (humidity has no more points than temperature).
UBChoices(resp) ==
    IF Cardinality({ k \in DOMAIN resp.body.feeds :
                        resp.body.feeds[k].field1 # NullJson }) > Capacity
    THEN UBOutcomes
    ELSE { "overwrite" }

\* homeMonitors[0].thingSpeak.GetFieldData() with the response resp
CallGetFieldData(resp, ub) ==
    \E r \in { GetFieldData(temperatureData, humidityData, resp, daylightSavings, ub) } :
        /\ call.outcome # "terminated"
        /\ ~call.oob      \* nothing is defined after an out-of-bounds write
        /\ temperatureData' = r.t
        /\ humidityData' = r.h
        /\ call' = CallRecord(r, resp)
        /\ memoryCorrupted' = (memoryCorrupted \/ r.corrupted)
        /\ httpGets' = r.requests
        /\ UNCHANGED daylightSavings

-----------------------------------------------------------------------------
(* main: the home monitors built from the settings file (lines 278-290)    *)

\* Entry i of the settings file: "name", "channel" and "key".
Setting(i) ==
    [name    |-> "Monitor " \o ToString(i),
     channel |-> ToString(1277292 + i),
     key     |-> "KEY" \o ToString(i)]

\* colorOptions, in order.
Palette == << "Blue", "Orange", "Green", "Purple", "Yellow" >>

\* colorOptions before the first call: every entry available.
AllAvailable == [k \in DOMAIN Palette |-> TRUE]

\* The first entry of the loop of line 743 that is available.
FirstAvailable(options) ==
    CHOOSE k \in DOMAIN options : options[k] /\ \A j \in 1 .. (k - 1) : ~options[j]

\* The colour assigned, the entry left available.
HomeMonitorSetColor_KeepsAvailable(homeMonitor, options) ==
    [homeMonitor   |-> [homeMonitor EXCEPT !.assignedColor = Palette[FirstAvailable(options)]],
     colorOptions  |-> options,
     colorSelected |-> TRUE]

\* bool HomeMonitorSetColor(HomeMonitor_t& homeMonitor), lines 723-763: the
\* monitor and colorOptions after the call, and the value returned.
HomeMonitorSetColor(homeMonitor, options) ==
    IF \E k \in DOMAIN options : options[k]
    THEN [homeMonitor   |-> [homeMonitor EXCEPT
                                !.assignedColor = Palette[FirstAvailable(options)]],
          colorOptions  |-> [options EXCEPT ![FirstAvailable(options)] = FALSE],
          colorSelected |-> TRUE]
    ELSE [homeMonitor |-> homeMonitor, colorOptions |-> options, colorSelected |-> FALSE]

\* The vector after the loop of lines 279-290 over n entries (n is at most
\* the number of colours).  `HomeMonitor_t homeMonitor;` is a local of
\* the loop body: displayData is never assigned and is the same
\* indeterminate value b in every element, and the series of every
\* ThingSpeak object hold the same indeterminate value g.
InitMonitors(n, b, g) ==
    /\ homeMonitors =
            [i \in 0 .. (n - 1) |->
                [objectName        |-> Setting(i).name,
                 thingSpeakChannel |-> Setting(i).channel,
                 thingSpeakKey     |-> Setting(i).key,
                 assignedColor     |-> Palette[i + 1],
                 displayData       |-> b]]
    /\ restSeries =
            [i \in 1 .. (n - 1) |->
                [temperatureData |-> UninitSeries(g), humidityData |-> UninitSeries(g)]]
    /\ colorOptions = [k \in DOMAIN Palette |-> k > n]
    /\ colorSelected = [i \in 0 .. (n - 1) |-> TRUE]

\* `static char ...InputBuffer[...] = "";`
EmptyBuffers == [name |-> "", channel |-> "", key |-> ""]

\* No plot window has been created yet.
NoPlot ==
    [yLimits |-> << >>, hovered |-> "none", mousePos |-> << >>,
     closestIndicies |-> << >>, tooltip |-> << >>]

\* The windows before the first frame.
InitWindows ==
    /\ darkMode = FALSE
    /\ inputBuffers = EmptyBuffers
    /\ plot = NoPlot

\* Lines 99-110: the frame contexts and the fence before the first frame.
InitD3D ==
    /\ g_frameContext = [i \in 0 .. (APP_NUM_FRAMES_IN_FLIGHT - 1) |-> 0]
    /\ g_frameIndex = 0
    /\ g_fenceLastSignaledValue = 0
    /\ g_fence = 0
    /\ commandQueue = << >>
    /\ frameCtx = NoFrameCtx

\* A settings file with one entry, shown.
InitOneMonitor ==
    /\ InitMonitors(1, TRUE, temperatureData.numDataPoints)
    /\ InitWindows
    /\ InitD3D

-----------------------------------------------------------------------------
(* main: the loop over the settings file, entry by entry (lines 278-290)   *)

\* What assignedColor of the local `homeMonitor` holds before the call: it
\* is not initialised, and the local of the turn before lay in its place.
IndeterminateColors == { Palette[k] : k \in DOMAIN Palette } \cup { "indeterminate" }

InitSettings ==
    /\ InitClient
    /\ homeMonitors = << >>
    /\ restSeries = << >>
    /\ colorOptions = AllAvailable
    /\ colorSelected = << >>
    /\ InitWindows
    /\ InitD3D
    /\ pc = "settings"
    /\ now = 0
    /\ pollingDelay = 0
    /\ g_SwapChainOccluded = FALSE
    /\ trigger = "none"
    /\ lastTimerReturn = NoReturn
    /\ inFlight = 0

\* f with the value v at the index n, one past its last
Pushed(f, n, v) == [i \in (DOMAIN f) \cup { n } |-> IF i = n THEN v ELSE f[i]]

\* Lines 279-290: one turn of the loop: the local is built, given a colour
\* if one is left, and pushed, whatever HomeMonitorSetColor returned.
PushHomeMonitor ==
    /\ pc = "settings"
    /\ \E n \in { Cardinality(DOMAIN homeMonitors) } :
       \E c \in IndeterminateColors :
       \E b \in IF n = 0 THEN BOOLEAN ELSE { homeMonitors[0].displayData } :
       \E r \in { HomeMonitorSetColor(
                    [objectName        |-> Setting(n).name,
                     thingSpeakChannel |-> Setting(n).channel,
                     thingSpeakKey     |-> Setting(n).key,
                     assignedColor     |-> c,
                     displayData       |-> b], colorOptions) } :
            /\ n < MaxSettings
            /\ homeMonitors' = Pushed(homeMonitors, n, r.homeMonitor)
            /\ colorOptions' = r.colorOptions
            /\ colorSelected' = Pushed(colorSelected, n, r.colorSelected)
            /\ restSeries' =
                    IF n = 0 THEN restSeries
                    ELSE Pushed(restSeries, n,
                            [temperatureData |-> UninitSeries(temperatureData.numDataPoints),
                             humidityData    |-> UninitSeries(temperatureData.numDataPoints)])
    /\ UNCHANGED <<series, call, memoryCorrupted, daylightSavings, httpGets, loopVars,
                   darkMode, inputBuffers, plot, d3dVars>>

\* Line 279: the settings file has no further entry.
EndOfSettings ==
    /\ pc = "settings"
    /\ pc' = "messages"
    /\ UNCHANGED <<series, call, memoryCorrupted, daylightSavings, httpGets,
                   now, pollingDelay, g_SwapChainOccluded, trigger, lastTimerReturn,
                   inFlight, uiVars, setupVars, d3dVars>>

NextSettings == PushHomeMonitor \/ EndOfSettings

SpecSettings == InitSettings /\ [][NextSettings]_vars

-----------------------------------------------------------------------------
(* The ThingSpeak object under any sequence of GetFieldData calls *)

Init ==
    /\ InitClient
    /\ InitOneMonitor
    /\ pc = "client"
    /\ now = 0
    /\ pollingDelay = 0
    /\ g_SwapChainOccluded = FALSE
    /\ trigger = "none"
    /\ lastTimerReturn = NoReturn
    /\ inFlight = 0

Refresh ==
    \E resp \in Responses : \E ub \in UBChoices(resp) :
        /\ CallGetFieldData(resp, ub)
        /\ UNCHANGED <<loopVars, uiVars, setupVars, d3dVars>>

Next == Refresh

Spec == Init /\ [][Next]_vars

-----------------------------------------------------------------------------
(* The ThingSpeak object fetching the same and other timestamps while the  *)
(* current zone goes on and off daylight saving time                       *)

RefreshStamped ==
    \E resp \in StampedResponses :
        /\ CallGetFieldData(resp, "overwrite")
        /\ UNCHANGED <<loopVars, uiVars, setupVars, d3dVars>>

\* std::chrono::current_zone() enters or leaves daylight saving time.
ChangeDaylightSavings ==
    /\ daylightSavings' = ~daylightSavings
    /\ httpGets' = 0
    /\ UNCHANGED <<series, call, memoryCorrupted, loopVars>>
    /\ UNCHANGED <<uiVars, setupVars, d3dVars>>

NextTime == RefreshStamped \/ ChangeDaylightSavings

SpecTime == Init /\ [][NextTime]_vars

-----------------------------------------------------------------------------
(* Properties of the channel client *)

Returned == call.outcome = "returned"
Succeeded == call.outcome = "returned" /\ call.ret = 0

\* what the last response held
LastFeeds == call.response.body.feeds

FieldOf(entry, f) == IF f = "field1" THEN entry.field1 ELSE entry.field2
SeriesOf(f) == IF f = "field1" THEN temperatureData ELSE humidityData
TrackedFields == { "field1", "field2" }

\* What a reader of the series sees: the name, the count and the points
\* below the count.
Exposed(d) ==
    [fieldName     |-> d.fieldName,
     numDataPoints |-> d.numDataPoints,
     points        |-> [k \in { j \in Slots : j < d.numDataPoints } |->
                            <<d.entryId[k], d.timestamp[k], d.xAxisData[k], d.yAxisData[k]>>]]

\* C1: a refresh whose HTTP status is not 200 returns a negative value and
\* leaves both series (name, count and every array) as they were, whatever
\* refreshes came before.
C1_FailedStatusKeepsSeries ==
    [][ (call'.outcome # "none" /\ call'.status # OK)
            => (call'.outcome = "returned" /\ call'.ret < 0 /\ series' = series) ]_vars

\* a failed refresh of an object that holds fetched points
C1_Witness ==
    /\ Returned /\ call.ret < 0 /\ call.status = NotFound
    /\ temperatureData.numDataPoints = 2
    /\ humidityData.numDataPoints = 1

\* C2: a status-200 response whose body does not parse, or lacks "feeds" or
\* "channel", makes the call return a negative value and leaves both series
\* as they were.
C2_MalformedBodyIsFailedRefresh ==
    [][ (call' # call /\ call'.status = OK
            /\ (call'.parse # "object" \/ ~call'.hasFeeds \/ ~call'.hasChannel))
            => (call'.outcome = "returned" /\ call'.ret < 0 /\ series' = series) ]_vars

\* C3: after a successful refresh of N <= capacity entries, a tracked field
\* that is non-null in every entry has N points with x-indices 0..N-1.
C3_FieldInEveryEntryGivesN ==
    (Succeeded /\ Len(LastFeeds) <= Capacity) =>
        \A f \in TrackedFields :
            (\A k \in DOMAIN LastFeeds : FieldOf(LastFeeds[k], f) # NullJson) =>
                /\ SeriesOf(f).numDataPoints = Len(LastFeeds)
                /\ \A k \in 0 .. (Len(LastFeeds) - 1) : SeriesOf(f).xAxisData[k] = k

\* C4: after a successful refresh of N entries, of which M lack field f, the
\* series of f has N - M points.
C4_OnePointPerEntryWithField ==
    Succeeded =>
        \A f \in TrackedFields :
            SeriesOf(f).numDataPoints =
                Cardinality({ k \in DOMAIN LastFeeds : FieldOf(LastFeeds[k], f) # NullJson })

\* C5: a refresh whose response holds a field value that is not numeric
\* completes normally (the entry is dropped, the call returns 0).
C5_NonNumericDropsOnlyTheEntry ==
    (call.outcome # "none" /\ call.status = OK /\ call.parse = "object"
        /\ call.hasChannel /\ call.nonNumeric) => Succeeded

\* C6: after a successful refresh both counts are at most the capacity and
\* no slot beyond the arrays was written.
C6_CountWithinCapacity ==
    Succeeded =>
        /\ temperatureData.numDataPoints <= Capacity
        /\ humidityData.numDataPoints <= Capacity
        /\ ~call.oob

\* C7: after a successful refresh xAxisData[k] = k for every k below the
\* count, in both series.
C7_XIndicesContiguous ==
    Succeeded =>
        \A f \in TrackedFields :
            \A k \in 0 .. (SeriesOf(f).numDataPoints - 1) :
                k \in Slots /\ SeriesOf(f).xAxisData[k] = k

\* C8: after a successful refresh what each series exposes is what the same
\* response gives an object without history.
C8_SeriesDeterminedByResponse ==
    Succeeded =>
        \A g \in UninitInts :
            LET fresh == GetFieldData(UninitSeries(g), UninitSeries(g), call.response,
                                      daylightSavings, "overwrite")
            IN  /\ Exposed(temperatureData) = Exposed(fresh.t)
                /\ Exposed(humidityData) = Exposed(fresh.h)

\* C9: every call returns; it returns 0 exactly when the data was fetched
\* (status 200) and a negative value otherwise, and then the series are
\* untouched.
C9_ReturnsZeroOrNegative ==
    [][ call' # call =>
            /\ call'.outcome = "returned"
            /\ (call'.ret = 0) \/ (call'.ret < 0)
            /\ (call'.ret = 0) <=> (call'.status = OK)
            /\ (call'.ret < 0) => (series' = series) ]_vars

-----------------------------------------------------------------------------
(* main: the rendering loop and its refresh triggers (main.cpp 296-422) *)

\* The responses the endpoint gives in the loop: a failure status, a body
\* that does not parse, and bodies of at most one entry.
LoopResponses ==
    { r \in Responses :
        \/ r.status = NotFound
        \/ r.status = OK /\ r.body.parse = "invalid"
        \/ /\ r.status = OK /\ r.body.parse = "object" /\ r.body.hasFeeds
           /\ r.body.channel.field1 = "Temperature"
           /\ Len(r.body.feeds) <= 1
           /\ \A k \in DOMAIN r.body.feeds : r.body.feeds[k] \in GoodEntries }

\* The first deadline a full interval after the start.
InitialPollingDelay_AfterInterval(start) == start + PollingInterval

\* Line 296: `auto pollingDelay = std::chrono::steady_clock::now();`
InitialPollingDelay(start) == start

\* `auto pollingDelay = std::chrono::steady_clock::now();` and `bool done =
\* false;`: the loop is entered at the clock reading the deadline holds.
InitLoop ==
    /\ InitClient
    /\ InitOneMonitor
    /\ pc = "messages"
    /\ now = 0
    /\ pollingDelay = InitialPollingDelay(0)
    /\ g_SwapChainOccluded = FALSE
    /\ trigger = "none"
    /\ lastTimerReturn = NoReturn
    /\ inFlight = 0

\* The blocking call of a trigger: the clock reads `now + d` when it returns
\* or ends the program.
BlockingRefresh(resp, ub, d) ==
    /\ CallGetFieldData(resp, ub)
    /\ now' = now + d

\* The deadline line 352 sets, from the clock readings at the start of the
\* call and at its return.
PollingDelayAfter_FromStart(start, completion) == start + PollingInterval

PollingDelayAfter_NoInterval(start, completion) == completion

PollingDelayAfter(start, completion) == completion + PollingInterval

\* The clock is followed up to MaxTime and reads MaxTime from then on.
ClockAfter(t, step) == IF t + step > MaxTime THEN MaxTime ELSE t + step

\* Lines 307-320: the message pump; WM_QUIT leaves the loop.
PumpMessages ==
    /\ pc = "messages"
    /\ \E step \in 1 .. MaxFrameMinutes : now' = ClockAfter(now, step)
    /\ \E quit \in BOOLEAN : pc' = IF quit THEN "done" ELSE "occlusion"
    /\ trigger' = "none"
    /\ httpGets' = 0
    /\ UNCHANGED <<series, call, memoryCorrupted, daylightSavings,
                   pollingDelay, g_SwapChainOccluded, lastTimerReturn, inFlight>>
    /\ UNCHANGED <<uiVars, setupVars, d3dVars>>

\* Lines 323-328: the window is still occluded: Sleep(10) and continue.
SleepWhileOccluded ==
    /\ pc = "occlusion"
    /\ g_SwapChainOccluded
    /\ pc' = "messages"
    /\ trigger' = "none"
    /\ httpGets' = 0
    /\ UNCHANGED <<series, call, memoryCorrupted, daylightSavings,
                   now, pollingDelay, g_SwapChainOccluded, lastTimerReturn, inFlight>>
    /\ UNCHANGED <<uiVars, setupVars, d3dVars>>

\* Lines 323-334: the frame starts (the test Present does not report
\* occlusion, or the flag was clear).
StartFrame ==
    /\ pc = "occlusion"
    /\ g_SwapChainOccluded' = FALSE
    /\ pc' = "windows"
    /\ trigger' = "none"
    /\ httpGets' = 0
    /\ UNCHANGED <<series, call, memoryCorrupted, daylightSavings, now, pollingDelay,
                   lastTimerReturn, inFlight>>
    /\ UNCHANGED <<uiVars, setupVars, d3dVars>>

\* Lines 340-341: the control windows, "Refresh Data" not pressed.
CreateControlWindows ==
    /\ pc = "windows"
    /\ pc' = "timer"
    /\ trigger' = "none"
    /\ httpGets' = 0
    /\ UNCHANGED <<series, call, memoryCorrupted, daylightSavings,
                   now, pollingDelay, g_SwapChainOccluded, lastTimerReturn, inFlight>>
    /\ UNCHANGED <<uiVars, setupVars, d3dVars>>

\* Lines 469-472: "Refresh Data" pressed: the call blocks the frame.
ManualRefresh ==
    /\ pc = "windows"
    /\ \E resp \in LoopResponses : \E ub \in UBChoices(resp) :
       \E d \in 0 .. MaxCallMinutes :
            /\ now + d <= MaxTime
            /\ BlockingRefresh(resp, ub, d)
    /\ pc' = IF call'.outcome = "terminated" THEN "terminated" ELSE "timer"
    /\ trigger' = "manual"
    /\ UNCHANGED <<pollingDelay, g_SwapChainOccluded, lastTimerReturn, inFlight>>
    /\ UNCHANGED <<uiVars, setupVars, d3dVars>>

\* Line 344: `std::chrono::steady_clock::now() > pollingDelay`
DeadlinePassed == now > pollingDelay

\* Lines 344-353: the deadline has passed: refresh, then set the deadline.
TimerRefresh ==
    /\ pc = "timer"
    /\ DeadlinePassed
    /\ \E resp \in LoopResponses : \E ub \in UBChoices(resp) :
       \E d \in 0 .. MaxCallMinutes :
            /\ now + d <= MaxTime
            /\ BlockingRefresh(resp, ub, d)
    /\ IF call'.outcome = "terminated"
       THEN pc' = "terminated" /\ UNCHANGED <<pollingDelay, lastTimerReturn>>
       ELSE /\ pc' = "render"
            /\ pollingDelay' = PollingDelayAfter(now, now')
            /\ lastTimerReturn' = now'
    /\ trigger' = "timer"
    /\ UNCHANGED <<g_SwapChainOccluded, inFlight>>
    /\ UNCHANGED <<uiVars, setupVars, d3dVars>>

\* Line 344: the deadline has not passed.
TimerNotDue ==
    /\ pc = "timer"
    /\ ~DeadlinePassed
    /\ pc' = "render"
    /\ trigger' = "none"
    /\ httpGets' = 0
    /\ UNCHANGED <<series, call, memoryCorrupted, daylightSavings,
                   now, pollingDelay, g_SwapChainOccluded, lastTimerReturn, inFlight>>
    /\ UNCHANGED <<uiVars, setupVars, d3dVars>>

\* Lines 356-421: the plot windows (readers of the series), the rendering
\* and Present, whose result sets g_SwapChainOccluded.
RenderAndPresent ==
    /\ pc = "render"
    /\ g_SwapChainOccluded' \in BOOLEAN
    /\ pc' = "messages"
    /\ trigger' = "none"
    /\ httpGets' = 0
    /\ UNCHANGED <<series, call, memoryCorrupted, daylightSavings, now, pollingDelay,
                   lastTimerReturn, inFlight>>
    /\ UNCHANGED <<uiVars, setupVars, d3dVars>>

NextLoop ==
    \/ PumpMessages
    \/ SleepWhileOccluded
    \/ StartFrame
    \/ CreateControlWindows
    \/ ManualRefresh
    \/ TimerRefresh
    \/ TimerNotDue
    \/ RenderAndPresent

SpecLoop == InitLoop /\ [][NextLoop]_vars

\* The loop keeps iterating: the thread of main is never starved.  What the
\* window system answers (WM_QUIT, the occlusion status) is not constrained.
SpecLoopFair == SpecLoop /\ WF_vars(NextLoop)

-----------------------------------------------------------------------------
(* The rendering loop with the call of GetFieldData in two steps: main      *)
(* enters the function, and the function returns or ends the program.      *)

FetchingManual == "GetFieldData (Refresh Data)"
FetchingTimer == "GetFieldData (timer)"

\* The caller goes on at `resume` without waiting for the call.
PcInCall_Detached(callSite, resume) == resume

\* Position of main while the call made at callSite runs: the call is an
\* ordinary function call on main's thread, so main is inside it.
PcInCall(callSite, resume) == callSite

\* Line 469-471: "Refresh Data" pressed, GetFieldData entered.
EnterManualRefresh ==
    /\ pc = "windows"
    /\ inFlight' = inFlight + 1
    /\ pc' = PcInCall(FetchingManual, "timer")
    /\ trigger' = "none"
    /\ httpGets' = 0
    /\ UNCHANGED <<series, call, memoryCorrupted, daylightSavings,
                   now, pollingDelay, g_SwapChainOccluded, lastTimerReturn>>
    /\ UNCHANGED <<uiVars, setupVars, d3dVars>>

\* Line 471: the call returns to the button's handler, or ends the program.
LeaveManualRefresh ==
    /\ pc = FetchingManual
    /\ \E resp \in LoopResponses : \E ub \in UBChoices(resp) :
       \E d \in 0 .. MaxCallMinutes :
            /\ now + d <= MaxTime
            /\ BlockingRefresh(resp, ub, d)
    /\ inFlight' = inFlight - 1
    /\ pc' = IF call'.outcome = "terminated" THEN "terminated" ELSE "timer"
    /\ trigger' = "manual"
    /\ UNCHANGED <<pollingDelay, g_SwapChainOccluded, lastTimerReturn>>
    /\ UNCHANGED <<uiVars, setupVars, d3dVars>>

\* Lines 344-350: the deadline has passed, GetFieldData entered.
EnterTimerRefresh ==
    /\ pc = "timer"
    /\ DeadlinePassed
    /\ inFlight' = inFlight + 1
    /\ pc' = PcInCall(FetchingTimer, "render")
    /\ trigger' = "none"
    /\ httpGets' = 0
    /\ UNCHANGED <<series, call, memoryCorrupted, daylightSavings,
                   now, pollingDelay, g_SwapChainOccluded, lastTimerReturn>>
    /\ UNCHANGED <<uiVars, setupVars, d3dVars>>

\* Lines 350-352: the call returns and the deadline is set, or the program
\* ends.
LeaveTimerRefresh ==
    /\ pc = FetchingTimer
    /\ \E resp \in LoopResponses : \E ub \in UBChoices(resp) :
       \E d \in 0 .. MaxCallMinutes :
            /\ now + d <= MaxTime
            /\ BlockingRefresh(resp, ub, d)
    /\ inFlight' = inFlight - 1
    /\ IF call'.outcome = "terminated"
       THEN pc' = "terminated" /\ UNCHANGED <<pollingDelay, lastTimerReturn>>
       ELSE /\ pc' = "render"
            /\ pollingDelay' = PollingDelayAfter(now, now')
            /\ lastTimerReturn' = now'
    /\ trigger' = "timer"
    /\ UNCHANGED g_SwapChainOccluded
    /\ UNCHANGED <<uiVars, setupVars, d3dVars>>

NextFetch ==
    \/ PumpMessages
    \/ SleepWhileOccluded
    \/ StartFrame
    \/ CreateControlWindows
    \/ EnterManualRefresh
    \/ LeaveManualRefresh
    \/ EnterTimerRefresh
    \/ LeaveTimerRefresh
    \/ TimerNotDue
    \/ RenderAndPresent

SpecFetch == InitLoop /\ [][NextFetch]_vars

-----------------------------------------------------------------------------
(* main and the GPU: frame contexts, command allocators and the fence      *)
(* (main.cpp 366-421, 1225-1271).  commandQueue holds, in order, what the  *)
(* queue was given and the GPU has not done yet: the command list of a     *)
(* frame, recorded in the allocator of its context, and the signal of the  *)
(* fence that follows it.                                                  *)

\* What the program leaves alone while it renders.
notOfFrames ==
    <<series, call, memoryCorrupted, daylightSavings, httpGets, now, pollingDelay,
      trigger, lastTimerReturn, inFlight, uiVars, setupVars>>

Commands(i) == [kind |-> "commands", allocator |-> i, value |-> 0]
Signal(v) == [kind |-> "signal", allocator |-> 0 - 1, value |-> v]

\* The wait returning whatever the fence has reached.
FenceReached_NoWait(completed, fenceValue) == TRUE

\* SetEventOnCompletion(fenceValue, g_fenceEvent) and the wait for the event:
\* the event is set once the fence has reached fenceValue.  With fenceValue
\* 0 there is no wait for the fence.
FenceReached(completed, fenceValue) == completed >= fenceValue

\* WaitForNextFrameResources, lines 1248-1266: the next context is chosen,
\* its fence value taken and zeroed.
NextFrameResources ==
    /\ pc = "messages"
    /\ g_frameIndex < MaxFrames
    /\ g_frameIndex' = g_frameIndex + 1
    /\ \E i \in { g_frameIndex' % APP_NUM_FRAMES_IN_FLIGHT } :
            /\ frameCtx' = [index |-> i, fenceValue |-> g_frameContext[i]]
            /\ g_frameContext' = [g_frameContext EXCEPT ![i] = 0]
    /\ pc' = "WaitForNextFrameResources"
    /\ UNCHANGED <<g_fenceLastSignaledValue, g_fence, commandQueue, g_SwapChainOccluded>>
    /\ UNCHANGED notOfFrames

\* Line 1268: WaitForMultipleObjects returns.
NextFrameResourcesReady ==
    /\ pc = "WaitForNextFrameResources"
    /\ FenceReached(g_fence, frameCtx.fenceValue)
    /\ pc' = "Reset"
    /\ UNCHANGED <<d3dVars, g_SwapChainOccluded>>
    /\ UNCHANGED notOfFrames

\* Lines 368-399: the allocator of the context is reset and the command
\* list of the frame recorded in it.
ResetAndRecord ==
    /\ pc = "Reset"
    /\ pc' = "ExecuteCommandLists"
    /\ UNCHANGED <<d3dVars, g_SwapChainOccluded>>
    /\ UNCHANGED notOfFrames

\* Line 400
ExecuteCommandLists ==
    /\ pc = "ExecuteCommandLists"
    /\ commandQueue' = Append(commandQueue, Commands(frameCtx.index))
    /\ pc' = "Present"
    /\ UNCHANGED <<g_frameContext, g_frameIndex, g_fenceLastSignaledValue, g_fence,
                   frameCtx, g_SwapChainOccluded>>
    /\ UNCHANGED notOfFrames

\* Lines 412-421: Present, then the fence is signalled with the next value,
\* which the context keeps.
PresentAndSignal ==
    /\ pc = "Present"
    /\ g_SwapChainOccluded' \in BOOLEAN
    /\ \E fenceValue \in { g_fenceLastSignaledValue + 1 } :
            /\ commandQueue' = Append(commandQueue, Signal(fenceValue))
            /\ g_fenceLastSignaledValue' = fenceValue
            /\ g_frameContext' = [g_frameContext EXCEPT ![frameCtx.index] = fenceValue]
    /\ frameCtx' = NoFrameCtx
    /\ pc' = "messages"
    /\ UNCHANGED <<g_frameIndex, g_fence>>
    /\ UNCHANGED notOfFrames

\* WM_SIZE, lines 986-992: WaitForLastSubmittedFrame (lines 1227-1240) with
\* a fence value in the context of the last frame; it returns at once when
\* the fence has reached the value.
WaitForLastSubmittedFrame ==
    /\ pc = "messages"
    /\ \E i \in { g_frameIndex % APP_NUM_FRAMES_IN_FLIGHT } :
            /\ g_frameContext[i] # 0
            /\ g_frameContext' = [g_frameContext EXCEPT ![i] = 0]
            /\ IF g_fence >= g_frameContext[i]
               THEN pc' = "messages" /\ UNCHANGED frameCtx
               ELSE /\ pc' = "WaitForLastSubmittedFrame"
                    /\ frameCtx' = [index |-> i, fenceValue |-> g_frameContext[i]]
    /\ UNCHANGED <<g_frameIndex, g_fenceLastSignaledValue, g_fence, commandQueue,
                   g_SwapChainOccluded>>
    /\ UNCHANGED notOfFrames

\* Lines 1242-1243: the wait for the event returns.
LastSubmittedFrameDone ==
    /\ pc = "WaitForLastSubmittedFrame"
    /\ FenceReached(g_fence, frameCtx.fenceValue)
    /\ frameCtx' = NoFrameCtx
    /\ pc' = "messages"
    /\ UNCHANGED <<g_frameContext, g_frameIndex, g_fenceLastSignaledValue, g_fence,
                   commandQueue, g_SwapChainOccluded>>
    /\ UNCHANGED notOfFrames

\* The GPU does what is first in the queue: it runs a command list, or sets
\* the fence to the value signalled.
GpuExecutes ==
    /\ commandQueue # << >>
    /\ commandQueue' = Tail(commandQueue)
    /\ g_fence' = IF Head(commandQueue).kind = "signal"
                  THEN Head(commandQueue).value ELSE g_fence
    /\ UNCHANGED <<pc, g_frameContext, g_frameIndex, g_fenceLastSignaledValue, frameCtx,
                   g_SwapChainOccluded>>
    /\ UNCHANGED notOfFrames

NextFrames ==
    \/ NextFrameResources
    \/ NextFrameResourcesReady
    \/ ResetAndRecord
    \/ ExecuteCommandLists
    \/ PresentAndSignal
    \/ WaitForLastSubmittedFrame
    \/ LastSubmittedFrameDone
    \/ GpuExecutes

SpecFrames == InitLoop /\ [][NextFrames]_vars

-----------------------------------------------------------------------------
(* The plot windows (main.cpp 638-715, 815-903)                             *)

Fields == { "Temperature", "Humidity" }

\* homeMonitors[i].thingSpeak.GetTemperature() / GetHumidity()
Dataset(i, field) ==
    IF i = 0
    THEN IF field = "Temperature" THEN temperatureData ELSE humidityData
    ELSE IF field = "Temperature" THEN restSeries[i].temperatureData
                                  ELSE restSeries[i].humidityData

\* What a plot window reads of the monitors: visibility and the dataset of
\* its field.
View(field) ==
    [i \in DOMAIN homeMonitors |->
        [displayData |-> homeMonitors[i].displayData, dataset |-> Dataset(i, field)]]

\* dataset->yAxisData[j] and dataset->xAxisData[j].  An index past the
\* arrays reads what lies there: for xAxisData the array yAxisData, which
\* follows it, otherwise bytes that are no float the code stored (wild).
ReadY(d, j, wild) == IF j \in Slots THEN d.yAxisData[j] ELSE wild

ReadX(d, j, wild) ==
    IF j \in Slots THEN d.xAxisData[j]
    ELSE IF (j - Capacity) \in Slots THEN d.yAxisData[j - Capacity] ELSE wild

\* Whether a loop over the points of a displayed monitor leaves the arrays.
ReadsOutOfBounds(view) ==
    \E i \in DOMAIN view : view[i].displayData /\ view[i].dataset.numDataPoints > Capacity

Min(a, b) == IF b < a THEN b ELSE a
Max(a, b) == IF a < b THEN b ELSE a

\* Lines 894-898: the loop over the points of one dataset, from index j.
RECURSIVE YBoundsOfPoints(_, _, _, _)
YBoundsOfPoints(d, j, acc, wild) ==
    IF ~(j < d.numDataPoints) THEN acc
    ELSE YBoundsOfPoints(d, j + 1,
            [yMin |-> Min(2 * ReadY(d, j, wild), acc.yMin),
             yMax |-> Max(2 * ReadY(d, j, wild), acc.yMax)], wild)

\* Lines 881-900: the loop over the monitors, from monitor i.
RECURSIVE YBoundsOfMonitors(_, _, _, _)
YBoundsOfMonitors(view, i, acc, wild) ==
    IF i \notin DOMAIN view THEN acc
    ELSE YBoundsOfMonitors(view, i + 1,
            IF view[i].displayData
            THEN YBoundsOfPoints(view[i].dataset, 0, acc, wild) ELSE acc, wild)

\* std::pair<float, float> HomeMonitorGetYAxisBoundaries(field, homeMonitors),
\* in halves
HomeMonitorGetYAxisBoundaries(view, wild) ==
    LET lim == YBoundsOfMonitors(view, 0, [yMin |-> FLT_MAX, yMax |-> FLT_MIN], wild)
    IN  << lim.yMin, lim.yMax >>

Abs(n) == IF n < 0 THEN 0 - n ELSE n

\* std::round of a number of halves: to the nearest integer, halves away
\* from zero.
Round(halves) ==
    IF halves >= 0 THEN (halves + 1) \div 2 ELSE 0 - ((1 - halves) \div 2)

\* Taking every point of the column, whatever its distance.
Closer_Always(yDistance, yMinDistance) == TRUE

\* Line 850: `if (yDistance < yMinDistance)`
Closer(yDistance, yMinDistance) == yDistance < yMinDistance

\* Lines 842-860: the loop over the points of monitor i, from index j.  The
\* mouse position holds x in halves and y in units.
RECURSIVE ClosestOfPoints(_, _, _, _, _, _)
ClosestOfPoints(d, i, j, mousePos, acc, wild) ==
    IF ~(j < d.numDataPoints) THEN acc
    ELSE
    LET xDistanceRounded == Abs(Round(mousePos.x - 2 * ReadX(d, j, wild)))
        yDistance        == Abs(mousePos.y - ReadY(d, j, wild))
    IN  ClosestOfPoints(d, i, j + 1, mousePos,
            IF xDistanceRounded # 0 THEN acc
            ELSE IF Closer(yDistance, acc.yMinDistance)
                 THEN [closestValue |-> << i, j >>, yMinDistance |-> yDistance]
                 ELSE acc,
            wild)

\* Lines 827-861: the loop over the monitors, from monitor i.
RECURSIVE ClosestOfMonitors(_, _, _, _, _)
ClosestOfMonitors(view, i, mousePos, acc, wild) ==
    IF i \notin DOMAIN view THEN acc
    ELSE ClosestOfMonitors(view, i + 1, mousePos,
            IF ~view[i].displayData THEN acc
            ELSE ClosestOfPoints(view[i].dataset, i, 0, mousePos, acc, wild), wild)

\* std::pair<int, int> HomeMonitorGetClosestPointToMouse(field, homeMonitors)
HomeMonitorGetClosestPointToMouse(view, mousePos, wild) ==
    ClosestOfMonitors(view, 0, mousePos,
        [closestValue |-> << 0 - 1, 0 - 1 >>, yMinDistance |-> FLT_MAX], wild).closestValue

\* Lines 688-708: the tooltip of the point found.
Tooltip(field, closestIndicies, wild) ==
    IF closestIndicies[1] = 0 - 1 THEN << >>
    ELSE LET d == Dataset(closestIndicies[1], field)
             entryId == closestIndicies[2]
         IN  [trendline |-> homeMonitors[closestIndicies[1]].objectName,
              entryId   |-> entryId,
              value     |-> ReadY(d, entryId, wild),
              captured  |-> IF entryId \in Slots THEN d.timestamp[entryId] ELSE ""]

-----------------------------------------------------------------------------
(* Frames of the user interface: an event of the control windows, the      *)
(* periodic refresh when it is due, and the two plot windows.  The clock is *)
(* not followed: the periodic refresh is due in the first frame and may be  *)
(* due in any later one.                                                    *)

\* The responses the endpoint gives here: a failure status, and bodies of
\* up to capacity entries with values above and below zero.
UIResponses ==
    { [status |-> NotFound, body |-> OtherBody("invalid")] }
    \cup
    { [status |-> OK,
       body |-> [parse |-> "object", hasFeeds |-> TRUE, feeds |-> f,
                 channel |-> Channel("Temperature", "Humidity")]] :
        f \in SeqsUpTo(UIEntries, Capacity) }

\* What is typed into the three input fields.
TypedBuffers == [name |-> "Bedroom", channel |-> "1277292", key |-> "I4BV5Q70NNDWH0SP"]

\* The cursor: over no plot, or over the plot of a field at a position on
\* or between the columns of the points (x in halves).
CursorOff == [hovered |-> "none", mousePos |-> << >>]

Cursors ==
    { CursorOff } \cup
    { [hovered |-> f, mousePos |-> [x |-> x, y |-> 60]] :
        f \in Fields, x \in 0 .. (2 * Capacity - 1) }

\* The cursor over no plot, or on the first point of the temperature plot.
FewCursors ==
    { c \in Cursors : c.hovered = "none" \/ (c.hovered = "Temperature" /\ c.mousePos.x = 0) }

\* Values an out-of-bounds read may find.
WildValues == UninitInts

InitUI ==
    /\ InitClient
    /\ \E n \in 1 .. MaxMonitors : \E b \in BOOLEAN :
            InitMonitors(n, b, temperatureData.numDataPoints)
    /\ InitWindows
    /\ InitD3D
    /\ pc = "windows"
    /\ now = 0
    /\ pollingDelay = 0
    /\ g_SwapChainOccluded = FALSE
    /\ trigger = "none"
    /\ lastTimerReturn = NoReturn
    /\ inFlight = 0

\* What a step of the control windows leaves alone, apart from what its
\* event changes.  What the plot windows of the frame before computed is
\* gone with that frame.
ControlWindowsDone ==
    /\ pc = "windows"
    /\ pc' = "timer"
    /\ trigger' = "none"
    /\ httpGets' = 0
    /\ plot' = NoPlot
    /\ UNCHANGED <<call, memoryCorrupted, daylightSavings, now, pollingDelay,
                   g_SwapChainOccluded, lastTimerReturn, inFlight, restSeries>>
    /\ UNCHANGED <<setupVars, d3dVars>>

\* Lines 340-341 without an event.
NoEvent ==
    /\ ControlWindowsDone
    /\ UNCHANGED <<series, homeMonitors, darkMode, inputBuffers>>

\* Lines 453-466: "Toggle Theme".
ToggleTheme ==
    /\ ControlWindowsDone
    /\ darkMode' = ~darkMode
    /\ UNCHANGED <<series, homeMonitors, inputBuffers>>

\* Every monitor of the vector refreshed by a trigger, one after another.
RefreshTargets_Every(monitors) == DOMAIN monitors

\* Lines 350 and 471: `homeMonitors[0].thingSpeak.GetFieldData();`: the
\* monitors a trigger refreshes.
RefreshTargets(monitors) == { 0 }

\* homeMonitors[i].thingSpeak.GetFieldData() with the response resp
RefreshHomeMonitor(i, resp) ==
    IF i = 0
    THEN CallGetFieldData(resp, "overwrite") /\ UNCHANGED restSeries
    ELSE \E r \in { GetFieldData(restSeries[i].temperatureData, restSeries[i].humidityData,
                                  resp, daylightSavings, "overwrite") } :
            /\ restSeries' = [restSeries EXCEPT
                                ![i] = [temperatureData |-> r.t, humidityData |-> r.h]]
            /\ call' = CallRecord(r, resp)
            /\ httpGets' = r.requests
            /\ UNCHANGED <<series, memoryCorrupted, daylightSavings>>

\* Lines 469-472: "Refresh Data".
PressRefreshData ==
    /\ pc = "windows"
    /\ \E resp \in UIResponses : \E i \in RefreshTargets(homeMonitors) :
            RefreshHomeMonitor(i, resp)
    /\ pc' = "timer"
    /\ trigger' = "manual"
    /\ plot' = NoPlot
    /\ UNCHANGED <<now, pollingDelay, g_SwapChainOccluded, lastTimerReturn, inFlight,
                   homeMonitors, darkMode, inputBuffers>>
    /\ UNCHANGED <<setupVars, d3dVars>>

\* The checkbox also emptying the series of the monitor.
ToggleVisibility_ClearsSeries ==
    /\ ControlWindowsDone
    /\ homeMonitors' = [homeMonitors EXCEPT ![0].displayData = ~@]
    /\ temperatureData' = [temperatureData EXCEPT !.numDataPoints = 0]
    /\ humidityData' = [humidityData EXCEPT !.numDataPoints = 0]
    /\ UNCHANGED <<darkMode, inputBuffers>>

\* Lines 495-496: the checkbox of homeMonitors[0].
ToggleVisibility ==
    /\ ControlWindowsDone
    /\ homeMonitors' = [homeMonitors EXCEPT ![0].displayData = ~@]
    /\ UNCHANGED <<series, darkMode, inputBuffers>>

\* Lines 524-541: text typed into the input fields.
TypeInputs ==
    /\ ControlWindowsDone
    /\ inputBuffers # TypedBuffers
    /\ inputBuffers' = TypedBuffers
    /\ UNCHANGED <<series, homeMonitors, darkMode>>

\* "Add" appending a monitor made of the input.
MonitorsAfterAdd_PushBack(monitors, buffers) ==
    LET n == Cardinality(DOMAIN monitors)
    IN  [i \in 0 .. n |->
            IF i < n THEN monitors[i]
            ELSE [objectName |-> buffers.name, thingSpeakChannel |-> buffers.channel,
                  thingSpeakKey |-> buffers.key, assignedColor |-> Palette[n + 1],
                  displayData |-> TRUE]]

\* Lines 544-557: what "Add" does to the vector: `TODO: Add entries to JSON
\* file`, nothing is added.
MonitorsAfterAdd(monitors, buffers) == monitors

\* Lines 544-557: "Add": the channel and key buffers are zeroed.
PressAdd ==
    /\ ControlWindowsDone
    /\ homeMonitors' = MonitorsAfterAdd(homeMonitors, inputBuffers)
    /\ inputBuffers' = [inputBuffers EXCEPT !.channel = "", !.key = ""]
    /\ UNCHANGED <<series, darkMode>>

\* Lines 344-353: the periodic refresh.
UITimerRefresh ==
    /\ pc = "timer"
    /\ \E resp \in UIResponses : \E i \in RefreshTargets(homeMonitors) :
            RefreshHomeMonitor(i, resp)
    /\ pc' = "plots"
    /\ trigger' = "timer"
    /\ lastTimerReturn' = now
    /\ UNCHANGED <<now, pollingDelay, g_SwapChainOccluded, inFlight,
                   homeMonitors, darkMode, inputBuffers, plot, setupVars, d3dVars>>

\* Line 344: the deadline has not passed; it has in the first frame.
UITimerNotDue ==
    /\ pc = "timer"
    /\ lastTimerReturn # NoReturn
    /\ pc' = "plots"
    /\ trigger' = "none"
    /\ httpGets' = 0
    /\ UNCHANGED <<series, call, memoryCorrupted, daylightSavings, now, pollingDelay,
                   g_SwapChainOccluded, lastTimerReturn, inFlight, uiVars, setupVars, d3dVars>>

\* Lines 356-361: the two plot windows, with the cursor as one of cursors.
\* Reads past the arrays either end the program or find some value.
HomeMonitorCreateThingSpeakViewerWindows(cursors) ==
    /\ pc = "plots"
    /\ \E cursor \in cursors :
       \E oob \in { \E f \in Fields : ReadsOutOfBounds(View(f)) } :
       \E ub \in IF oob THEN { "trap", "value" } ELSE { "value" } :
       \E wild \in IF oob THEN WildValues ELSE { 0 } :
            IF ub = "trap"
            THEN pc' = "terminated" /\ UNCHANGED plot
            ELSE /\ pc' = "windows"
                 /\ \E closest \in { IF cursor.hovered = "none" THEN << >>
                                      ELSE HomeMonitorGetClosestPointToMouse(
                                                View(cursor.hovered), cursor.mousePos, wild) } :
                        plot' = [yLimits  |-> [f \in Fields |->
                                        HomeMonitorGetYAxisBoundaries(View(f), wild)],
                                 hovered  |-> cursor.hovered,
                                 mousePos |-> cursor.mousePos,
                                 closestIndicies |-> closest,
                                 tooltip  |-> IF cursor.hovered = "none" THEN << >>
                                              ELSE Tooltip(cursor.hovered, closest, wild)]
    /\ trigger' = "none"
    /\ httpGets' = 0
    /\ UNCHANGED <<series, call, memoryCorrupted, daylightSavings, now, pollingDelay,
                   g_SwapChainOccluded, lastTimerReturn, inFlight,
                   homeMonitors, restSeries, darkMode, inputBuffers>>
    /\ UNCHANGED <<setupVars, d3dVars>>

\* Every event of the control windows; the cursor stays off the plots or on
\* one point.
CreateViewerWindowsFew == HomeMonitorCreateThingSpeakViewerWindows(FewCursors)

NextUI ==
    \/ NoEvent
    \/ ToggleTheme
    \/ PressRefreshData
    \/ ToggleVisibility
    \/ TypeInputs
    \/ PressAdd
    \/ UITimerRefresh
    \/ UITimerNotDue
    \/ CreateViewerWindowsFew

SpecUI == InitUI /\ [][NextUI]_vars

\* The events that change what the plots show, and the cursor anywhere.
CreateViewerWindows == HomeMonitorCreateThingSpeakViewerWindows(Cursors)

NextPlot ==
    \/ NoEvent
    \/ PressRefreshData
    \/ ToggleVisibility
    \/ UITimerRefresh
    \/ UITimerNotDue
    \/ CreateViewerWindows

SpecPlot == InitUI /\ [][NextPlot]_vars

-----------------------------------------------------------------------------
(* Properties of the refresh scheduling *)

\* C10 as claimed: when a refresh call of either trigger has returned, the
\* deadline is the clock reading at its return plus the interval.
C10_EveryCompletionResetsDeadline ==
    (trigger # "none" /\ call.outcome = "returned")
        => pollingDelay = now + PollingInterval

\* C10: when a timer-triggered call returns, with success or failure, the
\* deadline becomes the clock reading at its return plus the interval; a
\* manual refresh leaves the deadline as it was.
C10_TimerCompletionResetsDeadline ==
    [][ /\ (trigger' = "timer" /\ call'.outcome = "returned")
            => pollingDelay' = now' + PollingInterval
        /\ (trigger' = "manual") => pollingDelay' = pollingDelay ]_vars

\* a timer-triggered refresh that failed after blocking for a minute, later
\* than the first one
C10_Witness ==
    /\ trigger = "timer" /\ call.outcome = "returned" /\ call.ret < 0
    /\ pc = "render"
    /\ now > PollingInterval + 1
    /\ pollingDelay = now + PollingInterval

\* C11: a timer-triggered refresh starts no earlier than the interval after
\* the return of the timer-triggered refresh before it, whatever manual
\* refreshes were made in between.
C11_TimerRefreshesIntervalApart ==
    [][ (trigger' = "timer" /\ lastTimerReturn # NoReturn)
            => now >= lastTimerReturn + PollingInterval ]_vars

\* a second timer-triggered refresh, made after a manual one that failed
C11_Witness ==
    /\ trigger = "timer"
    /\ call.outcome = "returned" /\ call.ret = 0
    /\ lastTimerReturn >= PollingInterval + 2
    /\ pollingDelay = lastTimerReturn + PollingInterval

\* C12: once the deadline has passed at the top of an iteration, a
\* timer-triggered refresh is made, unless the loop is left or the program
\* ends.
C12_ElapsedDeadlineStartsRefresh ==
    (pc = "occlusion" /\ DeadlinePassed)
        ~> (trigger = "timer" \/ pc \in { "done", "terminated" })

\* C13: a step that makes a refresh (timer or "Refresh Data") issues
\* exactly one GET, whatever the response, and every other step issues none.
C13_OneGetPerTrigger ==
    [][ httpGets' = (IF trigger' # "none" THEN 1 ELSE 0) ]_vars

\* a manual refresh that failed, after a timer-triggered one
C13_Witness ==
    /\ trigger = "manual" /\ httpGets = 1
    /\ call.outcome = "returned" /\ call.ret < 0
    /\ lastTimerReturn # NoReturn

\* C14: never more than one call is in flight; while one is, main is inside
\* GetFieldData, and the only step is the end of that call (no message is
\* pumped, no frame rendered, no other call entered); the count returns to
\* 0 in the step in which the call ends, and in no other.
C14_OneCallInFlight ==
    [][ /\ inFlight' \in { 0, 1 }
        /\ (inFlight' = 1) <=> (pc' \in { FetchingManual, FetchingTimer })
        /\ (inFlight = 1) =>
                /\ inFlight' = 0
                /\ trigger' # "none"
                /\ pc' \in { "timer", "render", "terminated" }
        /\ (trigger' # "none") => (inFlight = 1 /\ inFlight' = 0) ]_vars

\* main inside a timer-triggered call that is not the first one
C14_Witness ==
    /\ inFlight = 1
    /\ pc = FetchingTimer
    /\ call.outcome = "returned"
    /\ lastTimerReturn # NoReturn

-----------------------------------------------------------------------------
(* Properties of the timestamp conversion *)

LeapYear(Y) == (Y % 4 = 0 /\ Y % 100 # 0) \/ (Y % 400 = 0)

DaysInMonth(Y, M) ==
    CASE M \in { 4, 6, 9, 11 } -> 30
      [] M = 2 -> IF LeapYear(Y) THEN 29 ELSE 28
      [] OTHER -> 31

\* The wall-clock time n hours (n <= 24) before utc, by the calendar.
HoursEarlier(utc, n) ==
    IF utc.hour >= n THEN [utc EXCEPT !.hour = @ - n]
    ELSE IF utc.day > 1 THEN [utc EXCEPT !.hour = @ + 24 - n, !.day = @ - 1]
    ELSE IF utc.month > 1
         THEN [utc EXCEPT !.hour = @ + 24 - n, !.month = @ - 1,
                          !.day = DaysInMonth(utc.year, utc.month - 1)]
    ELSE [utc EXCEPT !.hour = @ + 24 - n, !.year = @ - 1, !.month = 12, !.day = 31]

\* Every point of both series holds the timestamp of its entry n hours
\* earlier (the entries of StampedResponses have both fields, so point k is
\* entry k + 1).
StoredHoursEarlier(n) ==
    \A f \in TrackedFields :
        /\ SeriesOf(f).numDataPoints = Len(LastFeeds)
        /\ \A k \in 0 .. (Len(LastFeeds) - 1) :
                SeriesOf(f).timestamp[k] = PutTime(HoursEarlier(LastFeeds[k + 1].created_at, n))

\* C15: without daylight saving every timestamp is stored as the wall-clock
\* time 8 hours earlier, written "YYYY-MM-DD HH:MM:SS", across the turns of
\* day, month and year; "2024-12-24T07:10:39Z" gives "2024-12-23 23:10:39".
C15_EightHoursEarlierWithoutDst ==
    /\ (Succeeded /\ ~call.dst) => StoredHoursEarlier(8)
    /\ PstDateTimeOf[UtcDateTime(2024, 12, 24, 7, 10, 39), FALSE] = "2024-12-23 23:10:39"

\* February 29th and December 31st of the year before, fetched without
\* daylight saving
C15_Witness ==
    /\ Succeeded /\ ~call.dst
    /\ temperatureData.numDataPoints = 2
    /\ temperatureData.timestamp[0] = "2024-02-29 19:15:00"
    /\ humidityData.timestamp[1] = "2024-12-31 16:00:00"

\* C16: the offset is -7 h when daylight saving is in effect during the
\* refresh and -8 h when it is not, whatever the date of the timestamp; a
\* response fetched again after daylight saving began or ended is stored
\* with different strings.
C16_OffsetFollowsCurrentDst ==
    [][ /\ (Succeeded' /\ call'.dst) => StoredHoursEarlier(7)'
        /\ (Succeeded' /\ ~call'.dst) => StoredHoursEarlier(8)'
        /\ (Succeeded /\ Succeeded' /\ call'.response = call.response
                /\ call'.dst # call.dst)
            => \A f \in TrackedFields : \A k \in 0 .. (Len(LastFeeds) - 1) :
                    SeriesOf(f).timestamp[k]' # SeriesOf(f).timestamp[k] ]_vars

\* a December timestamp fetched during daylight saving, next to a point
\* stored before the change
C16_Witness ==
    /\ Succeeded /\ call.dst
    /\ temperatureData.numDataPoints = 1
    /\ temperatureData.timestamp[0] = "2024-12-24 00:10:39"
    /\ temperatureData.timestamp[1] = "2024-12-24 12:30:05"


\* C17: the stored series of every channel change only in a step that calls
\* GetFieldData: the theme toggle, the checkbox, the input fields, "Add", the
\* timer test that finds nothing due and the plot windows with their
\* closest-point, axis-bounds and tooltip computations leave them as they are.
C17_SeriesChangeOnlyInGetFieldData ==
    [][ (series' # series \/ restSeries' # restSeries) => trigger' # "none" ]_vars

\* C17 witness: the theme is toggled, "Add" has been pressed, the checkbox
\* shows the monitor, no refresh ran in this frame and the tooltip shows the
\* first point that the last successful refresh stored.
C17_Witness ==
    /\ darkMode /\ inputBuffers = [TypedBuffers EXCEPT !.channel = "", !.key = ""]
    /\ homeMonitors[0].displayData
    /\ Succeeded /\ temperatureData.numDataPoints = 2
    /\ pc = "windows" /\ trigger = "none"
    /\ plot # NoPlot /\ plot.hovered = "Temperature" /\ plot.closestIndicies = << 0, 0 >>
    /\ plot.tooltip.value = temperatureData.yAxisData[0]

\* The channels the program tracks: how many there are, and the name, the
\* channel id and the API key of each.
TrackedChannels ==
    [i \in DOMAIN homeMonitors |->
        [objectName        |-> homeMonitors[i].objectName,
         thingSpeakChannel |-> homeMonitors[i].thingSpeakChannel,
         thingSpeakKey     |-> homeMonitors[i].thingSpeakKey]]

\* C18: no step changes the set of tracked channels or the name, channel id
\* or key of any of them; "Add" adds no channel.
C18_TrackedChannelsNeverChange ==
    [][ TrackedChannels' = TrackedChannels ]_vars

\* C18 witness: "Add" has been pressed on typed input (it zeroed the channel
\* and key fields), and the two monitors of the start are still the only ones.
C18_Witness ==
    /\ inputBuffers = [TypedBuffers EXCEPT !.channel = "", !.key = ""]
    /\ pc = "timer"
    /\ DOMAIN homeMonitors = 0 .. 1
    /\ homeMonitors[1].objectName # TypedBuffers.name


\* The points the plot of a field shows: point j of monitor i, for the
\* displayed monitors and the indices below numDataPoints.
DisplayedPoints(field) ==
    { p \in (DOMAIN homeMonitors) \X Slots :
        homeMonitors[p[1]].displayData /\ p[2] < Dataset(p[1], field).numDataPoints }

YOf(field, p) == Dataset(p[1], field).yAxisData[p[2]]
XOf(field, p) == Dataset(p[1], field).xAxisData[p[2]]

\* Whether the series of every displayed monitor lie within their arrays.
WithinArrays(field) ==
    \A i \in DOMAIN homeMonitors :
        homeMonitors[i].displayData => Dataset(i, field).numDataPoints <= Capacity

\* C19: the limits a plot window gets from HomeMonitorGetYAxisBoundaries are
\* the least and the greatest y-value of the points of its field over the
\* displayed monitors (in halves, as the limits are), also when every value
\* is negative; points of hidden monitors do not count.
C19_YAxisBoundariesAreMinAndMax ==
    plot # NoPlot =>
        \A f \in Fields :
            (WithinArrays(f) /\ DisplayedPoints(f) # {}) =>
                \E lo, hi \in DisplayedPoints(f) :
                    /\ \A p \in DisplayedPoints(f) :
                            YOf(f, lo) <= YOf(f, p) /\ YOf(f, p) <= YOf(f, hi)
                    /\ plot.yLimits[f] = << 2 * YOf(f, lo), 2 * YOf(f, hi) >>

\* The displayed points in the column of the cursor: rounded x-distance 0.
InCursorColumn(field, mousePos) ==
    { p \in DisplayedPoints(field) : Round(mousePos.x - 2 * XOf(field, p)) = 0 }

Coloured == { i \in DOMAIN homeMonitors : colorSelected[i] }

\* C21: no two monitors for which HomeMonitorSetColor returned true hold the
\* same palette colour; a call made when no entry is available returns false
\* and takes nothing, the calls before it having returned true; and an entry
\* once taken is never available again.
C21_SetColorAssignsUniqueColours ==
    /\ [](\A i, j \in Coloured :
            i # j => homeMonitors[i].assignedColor # homeMonitors[j].assignedColor)
    /\ [](\A i \in DOMAIN homeMonitors : colorSelected[i] <=> i < Len(Palette))
    /\ [][ /\ \A k \in DOMAIN Palette : ~colorOptions[k] => ~colorOptions'[k]
           /\ (DOMAIN homeMonitors' # DOMAIN homeMonitors
                    /\ \A k \in DOMAIN Palette : ~colorOptions[k])
                => colorOptions' = colorOptions ]_vars

\* C21 witness: seven calls were made, the five colours are taken, the sixth
\* and seventh call returned false, and the sixth monitor holds, from the
\* local left uninitialised, the colour of the fifth.
C21_Witness ==
    /\ DOMAIN homeMonitors = 0 .. 6
    /\ \A k \in DOMAIN Palette : ~colorOptions[k]
    /\ ~colorSelected[5] /\ ~colorSelected[6]
    /\ homeMonitors[5].assignedColor = homeMonitors[4].assignedColor


\* The count of every series of every monitor, as the plot windows read it.
PointCounts ==
    { Dataset(i, f).numDataPoints : i \in DOMAIN homeMonitors, f \in Fields }

\* C22: a series is empty before the first successful refresh of its
\* channel: at startup, after a first refresh that failed, and in a channel
\* that is never refreshed; the plot windows never read a count outside
\* 0 .. capacity.
C22_EmptySeriesBeforeFirstSuccess ==
    /\ [](call = NoCall =>
            temperatureData.numDataPoints = 0 /\ humidityData.numDataPoints = 0)
    /\ [][ (call = NoCall /\ call'.outcome = "returned" /\ call'.ret < 0) =>
            temperatureData'.numDataPoints = 0 /\ humidityData'.numDataPoints = 0 ]_vars
    /\ [](\A i \in DOMAIN restSeries :
            /\ restSeries[i].temperatureData.numDataPoints = 0
            /\ restSeries[i].humidityData.numDataPoints = 0)
    /\ [](PointCounts \subseteq 0 .. Capacity)

\* The entries of the last response with a temperature, and those with a
\* temperature and a humidity.
WithTemperature == { k \in DOMAIN LastFeeds : LastFeeds[k].field1 # NullJson }
WithBoth == { k \in WithTemperature : LastFeeds[k].field2 # NullJson }

\* C23: after a successful refresh the humidity series holds one point for
\* every entry in which temperature and humidity are both non-null and no
\* other, the temperature series one for every entry with a temperature; the
\* humidity series is never the longer.
C23_HumidityOnlyWithTemperature ==
    Succeeded =>
        /\ temperatureData.numDataPoints = Cardinality(WithTemperature)
        /\ humidityData.numDataPoints = Cardinality(WithBoth)
        /\ humidityData.numDataPoints <= temperatureData.numDataPoints

\* C23 witness: a successful refresh of a response with an entry that has a
\* humidity and no temperature; the entry is in neither series.
C23_Witness ==
    /\ Succeeded
    /\ \E k \in DOMAIN LastFeeds :
            LastFeeds[k].field1 = NullJson /\ LastFeeds[k].field2 # NullJson
    /\ temperatureData.numDataPoints = 1
    /\ humidityData.numDataPoints = 0


\* The entries of the last response that a series takes, in their order:
\* those with a temperature, and for humidity those with both fields.
TakesTemperature(entry) == entry.field1 # NullJson
TakesBoth(entry) == entry.field1 # NullJson /\ entry.field2 # NullJson

EntriesOf(f) ==
    IF f = "field1" THEN SelectSeq(LastFeeds, TakesTemperature)
    ELSE SelectSeq(LastFeeds, TakesBoth)

\* Point k of the series of f holds the id, the time and the value of entry.
PointIsEntry(f, k, entry) ==
    /\ k \in Slots
    /\ SeriesOf(f).entryId[k] = entry.entry_id
    /\ SeriesOf(f).timestamp[k] = PstDateTimeOf[entry.created_at, call.dst]
    /\ SeriesOf(f).yAxisData[k] = stof(FieldOf(entry, f)).value

\* C24: after a successful refresh, point k of each series holds the id, the
\* timestamp and the value of one and the same entry of the response, and
\* the points follow the order of the entries in "feeds".
C24_ParallelArraysAligned ==
    Succeeded =>
        \A f \in TrackedFields :
            /\ SeriesOf(f).numDataPoints = Len(EntriesOf(f))
            /\ \A k \in 0 .. (SeriesOf(f).numDataPoints - 1) :
                    PointIsEntry(f, k, EntriesOf(f)[k + 1])

\* The same for the refreshes that stay within the arrays.
AlignedWithinCapacity ==
    (Succeeded /\ ~call.oob) =>
        \A f \in TrackedFields :
            /\ SeriesOf(f).numDataPoints = Len(EntriesOf(f))
            /\ \A k \in 0 .. (SeriesOf(f).numDataPoints - 1) :
                    PointIsEntry(f, k, EntriesOf(f)[k + 1])


\* C25: a refresh trigger, by the timer or by "Refresh Data", issues one
\* request and refreshes homeMonitors[0]; no step writes the series of
\* another monitor.
C25_OnlyFirstChannelIsFetched ==
    [][ /\ restSeries' = restSeries
        /\ (trigger' # "none") => (httpGets' = 1 /\ call' # NoCall) ]_vars

\* C25 witness: with two monitors, a refresh by the timer stored two points
\* in homeMonitors[0] and homeMonitors[1] holds what it held at startup.
C25_Witness ==
    /\ DOMAIN homeMonitors = 0 .. 1
    /\ trigger = "timer" /\ Succeeded
    /\ temperatureData.numDataPoints = 2
    /\ \E g \in UninitInts \ { 2 } : restSeries[1].temperatureData = UninitSeries(g)


\* C26: as long as no refresh by the timer has returned, a frame that reaches
\* the timer test refreshes: the first rendered frame does, whatever the
\* time since the start, the deadline being the clock reading of the start.
C26_FirstFrameRefreshes ==
    [][ (pc = "timer" /\ lastTimerReturn = NoReturn) => trigger' = "timer" ]_vars

\* C26 witness: the first refresh by the timer returned before a full
\* interval had passed since the start.
C26_Witness ==
    /\ trigger = "timer" /\ call.outcome = "returned"
    /\ lastTimerReturn # NoReturn /\ lastTimerReturn < PollingInterval
    /\ pollingDelay = lastTimerReturn + PollingInterval


\* The command lists of the queue that the GPU has not run, recorded in the
\* allocator of context i.
PendingIn(i) ==
    { k \in DOMAIN commandQueue :
        commandQueue[k].kind = "commands" /\ commandQueue[k].allocator = i }

\* C27: when the render loop resets the allocator of a context and records
\* in it, the GPU has run every command list recorded in that allocator and
\* the fence has reached the value the context held from its last
\* submission; the values signalled on the queue go up by one per presented
\* frame.
C27_AllocatorResetAfterFence ==
    /\ [](pc \in { "Reset", "ExecuteCommandLists" } =>
            /\ PendingIn(frameCtx.index) = {}
            /\ g_fence >= frameCtx.fenceValue)
    /\ [][ /\ (pc = "Present" /\ pc' # pc) =>
                    /\ g_fenceLastSignaledValue' = g_fenceLastSignaledValue + 1
                    /\ commandQueue' = Append(commandQueue, Signal(g_fenceLastSignaledValue'))
           /\ (pc # "Present" \/ pc' = pc) =>
                    g_fenceLastSignaledValue' = g_fenceLastSignaledValue ]_vars
    /\ [](\A k \in DOMAIN commandQueue :
            commandQueue[k].kind = "signal" =>
                /\ commandQueue[k].value > g_fence
                /\ commandQueue[k].value <= g_fenceLastSignaledValue
                /\ \A j \in 1 .. (k - 1) :
                        commandQueue[j].kind = "signal" =>
                            commandQueue[j].value < commandQueue[k].value)

\* C27 witness: the allocator of a context used before is about to be reset,
\* after a wait for its fence value, while the command lists of the two
\* frames after it are still in the queue.
C27_Witness ==
    /\ pc = "Reset"
    /\ frameCtx.fenceValue # 0 /\ g_fence = frameCtx.fenceValue
    /\ Len(commandQueue) = 4
    /\ g_frameIndex > APP_NUM_FRAMES_IN_FLIGHT

=============================================================================
